---- MODULE Spec2Model ----
(***************************************************************************)
(* w3plex configuration resolver: _Resolver, _ConfigLoader (add_node,      *)
(* _get_node, parse), ConfigTree and Runner.init, modelled from            *)
(* src/src/w3plex/core/config.py, src/src/w3plex/utils/dist.py and         *)
(* src/src/w3plex/runner.py.                                               *)
(*                                                                         *)
(* Python objects live in a heap (dicts keep insertion order, lists are    *)
(* indexed from 0); parse's coroutines are an explicit stack of frames,    *)
(* one action per step between two calls or returns.                       *)
(*                                                                         *)
(* Paths are sequences of segments: "a.b" is <<"a","b">>, "" is <<>>.      *)
(* Document keys hold no dot, so joining with "." is appending a segment.  *)
(* A string that starts with IMPORT_SIGN is a value tagged "ref" whose p   *)
(* is the text after the sign, as a path.                                  *)
(***************************************************************************)
EXTENDS Integers, Sequences, FiniteSets, TLC

IMPORT_KEY == "__init__"

(* ------------------------------ values -------------------------------- *)

NoId == <<>>

IntV(n) == [t |-> "int", i |-> n, s |-> "", p |-> <<>>, o |-> NoId]
StrV(s) == [t |-> "str", i |-> 0, s |-> s, p |-> <<>>, o |-> NoId]
RefV(p) == [t |-> "ref", i |-> 0, s |-> "", p |-> p, o |-> NoId]
ObjV(o) == [t |-> "obj", i |-> 0, s |-> "", p |-> <<>>, o |-> o]
EntV(e) == [t |-> "ent", i |-> e, s |-> "", p |-> <<>>, o |-> NoId]
NoneV == [t |-> "none", i |-> 0, s |-> "", p |-> <<>>, o |-> NoId]

\* dict keys: a str key has n = -1, an int key (a sequence index) has s = ""
SKey(s) == [s |-> s, n |-> -1]
IKey(n) == [s |-> "", n |-> n]

\* str(key)
StrOf(k) == IF k.n >= 0 THEN ToString(k.n) ELSE k.s

(* ------------------------------ objects ------------------------------- *)

FreeObj == [kind |-> "free", keys |-> <<>>, vals |-> <<>>]
NewAttrDict == [kind |-> "attr", keys |-> <<>>, vals |-> <<>>]
NewList == [kind |-> "list", keys |-> <<>>, vals |-> <<>>]

IsDictObj(ob) == ob.kind \in {"dict", "attr"}

DictHas(ob, k) == \E j \in 1..Len(ob.keys) : ob.keys[j] = k

DictIdx(ob, k) == CHOOSE j \in 1..Len(ob.keys) : ob.keys[j] = k

DictGet(ob, k) == ob.vals[DictIdx(ob, k)]

DictSet(ob, k, v) ==
    IF DictHas(ob, k)
    THEN [ob EXCEPT !.vals[DictIdx(ob, k)] = v]
    ELSE [ob EXCEPT !.keys = Append(@, k), !.vals = Append(@, v)]

DictDel(ob, k) ==
    LET keep == [j \in 1..Len(ob.keys) |-> ob.keys[j] # k]
        Sel(q) == SelectSeq([j \in 1..Len(q) |-> <<j, q[j]>>], LAMBDA e : keep[e[1]])
    IN [ob EXCEPT !.keys = [j \in 1..Len(Sel(ob.keys)) |-> Sel(ob.keys)[j][2]],
                  !.vals = [j \in 1..Len(Sel(ob.vals)) |-> Sel(ob.vals)[j][2]]]

\* collection[key] = val on a dict, or on a list with an index in range
SetItem(ob, k, v) ==
    IF ob.kind = "list"
    THEN [ob EXCEPT !.vals[k.n + 1] = v]
    ELSE DictSet(ob, k, v)

\* whether collection[key] = val is accepted by the object's type
CanSetItem(ob, k) ==
    IF ob.kind = "list" THEN k.n >= 0 /\ k.n < Len(ob.vals) ELSE IsDictObj(ob)

(* ----------------------------- documents ------------------------------ *)

Map(keys, kids) == [t |-> "map", keys |-> keys, kids |-> kids]
Lst(kids) == [t |-> "list", keys |-> <<>>, kids |-> kids]
Ent(ctor, keys, kids) == Map(<<IMPORT_KEY>> \o keys, <<StrV(ctor)>> \o kids)

IsContainer(node) == node.t \in {"map", "list"}

RECURSIVE At(_, _)
At(node, pos) == IF pos = <<>> THEN node ELSE At(node.kids[Head(pos)], Tail(pos))

RECURSIVE Positions(_)
Positions(node) ==
    IF IsContainer(node)
    THEN {<<>>} \cup UNION {{<<j>> \o q : q \in Positions(node.kids[j])} :
                            j \in 1..Len(node.kids)}
    ELSE {}

\* the document with the keys of every Mapping in the opposite order (a
\* leading constructor key stays first)
RECURSIVE ReverseKeys(_)
ReverseKeys(node) ==
    IF ~IsContainer(node) THEN node
    ELSE LET kids == [j \in 1..Len(node.kids) |-> ReverseKeys(node.kids[j])]
             n == Len(kids)
             lead == IF n > 0 /\ node.t = "map" /\ node.keys[1] = IMPORT_KEY
                     THEN 1 ELSE 0
             Flip(q) == [j \in 1..n |-> IF j <= lead THEN q[j] ELSE q[n + lead + 1 - j]]
         IN IF node.t = "map"
            THEN [t |-> "map", keys |-> Flip(node.keys), kids |-> Flip(kids)]
            ELSE [t |-> "list", keys |-> <<>>, kids |-> kids]

InId(pos) == <<0>> \o pos
OutId(pos) == <<1>> \o pos
OutOf(id) == <<1>> \o Tail(id)
TreeId == <<2>>

ObjOf(node, pos) ==
    [kind |-> IF node.t = "map" THEN "dict" ELSE "list",
     keys |-> [j \in 1..Len(node.keys) |-> SKey(node.keys[j])],
     vals |-> [j \in 1..Len(node.kids) |->
                 IF IsContainer(node.kids[j])
                 THEN ObjV(InId(pos \o <<j>>))
                 ELSE node.kids[j]]]

\* the heap that holds document d: its dicts and lists, and a free cell for
\* the output object parse builds for each of them
LoadDoc(d) ==
    [id \in {InId(q) : q \in Positions(d)} \cup {OutId(q) : q \in Positions(d)}
            \cup {TreeId} |->
        IF id[1] = 0 THEN ObjOf(At(d, Tail(id)), Tail(id)) ELSE FreeObj]

(* ------------------------- Reference Registry ------------------------- *)
(* The part of the program state that _Resolver and the callbacks of      *)
(* parse._resolve read and write, as one record S:                        *)
(*   heap    object id -> object                                          *)
(*   states  the state dicts {'parsed', 'unresolved', 'path'} of parse    *)
(*   idx     _Resolver._idx, name -> value                                *)
(*   later   _Resolver._later, in insertion order: <<[name, cbs]>>        *)
(*   ncb     callbacks created so far (the identity of a closure)         *)
(*   fired   log of callback invocations, in order                        *)
(*   regs    log of register() calls, in order                            *)

LaterHas(l, name) == \E j \in 1..Len(l) : l[j].name = name

\* self._later.pop(key, []): the value popped
LaterCbs(l, name) ==
    IF LaterHas(l, name)
    THEN l[CHOOSE j \in 1..Len(l) : l[j].name = name].cbs
    ELSE <<>>

\* a pop that empties the list of `name` and leaves the key
LaterPopKeepKey(l, name) ==
    [j \in 1..Len(l) |-> IF l[j].name = name THEN [l[j] EXCEPT !.cbs = <<>>] ELSE l[j]]

\* self._later.pop(key, []): the dict left
LaterPop(l, name) == SelectSeq(l, LAMBDA e : e.name # name)

\* self._later[value].append(callback) on a defaultdict(list)
LaterAppend(l, name, cb) ==
    IF LaterHas(l, name)
    THEN [j \in 1..Len(l) |->
            IF l[j].name = name THEN [l[j] EXCEPT !.cbs = Append(@, cb)] ELSE l[j]]
    ELSE Append(l, [name |-> name, cbs |-> <<cb>>])

GetUnresolved(l) == [j \in 1..Len(l) |-> l[j].name]

IdxSet(idx, name, v) ==
    [n \in DOMAIN idx \cup {name} |-> IF n = name THEN v ELSE idx[n]]

\* a callback that leaves the counter as it is
CallbackKeepCounter(S, cb, val, sync) ==
    [S EXCEPT !.heap[cb.coll] = SetItem(@, cb.key, val),
              !.fired = Append(@, [cb |-> cb, val |-> val, sync |-> sync])]

\* the closure `callback` of parse._resolve, invoked with val
\* (sync: by resolve_once_ready; else by register)
Callback(S, cb, val, sync) ==
    [S EXCEPT !.heap[cb.coll] = SetItem(@, cb.key, val),
              !.states[cb.st].unresolved = @ - 1,
              !.fired = Append(@, [cb |-> cb, val |-> val, sync |-> sync])]

RECURSIVE FireAll(_, _, _)
FireAll(S, cbs, val) ==
    IF cbs = <<>>
    THEN S
    ELSE FireAll(Callback(S, Head(cbs), val, FALSE), Tail(cbs), val)

\* register that leaves the callbacks of `name` pending after invoking them
RegisterKeep(S, name, val) ==
    FireAll([S EXCEPT !.idx = IdxSet(@, name, val),
                      !.regs = Append(@, [name |-> name, val |-> val])],
            LaterCbs(S.later, name), val)

\* register that invokes every pending callback a second time
RegisterTwice(S, name, val) ==
    FireAll([S EXCEPT !.idx = IdxSet(@, name, val),
                      !.later = LaterPop(@, name),
                      !.regs = Append(@, [name |-> name, val |-> val])],
            LaterCbs(S.later, name) \o LaterCbs(S.later, name), val)

Register(S, name, val) ==
    FireAll([S EXCEPT !.idx = IdxSet(@, name, val),
                      !.later = LaterPop(@, name),
                      !.regs = Append(@, [name |-> name, val |-> val])],
            LaterCbs(S.later, name), val)

\* the value resolve_once_ready returns
ResolveOnceReadyResult(S, name) == name \in DOMAIN S.idx

\* resolve_once_ready that enqueues the callback it has just invoked
ResolveOnceReadyBoth(S, name, cb) ==
    IF name \in DOMAIN S.idx
    THEN [Callback(S, cb, S.idx[name], TRUE) EXCEPT !.later = LaterAppend(@, name, cb)]
    ELSE [S EXCEPT !.later = LaterAppend(@, name, cb)]

\* resolve_once_ready that never looks the name up
ResolveOnceReadyLater(S, name, cb) ==
    [S EXCEPT !.later = LaterAppend(@, name, cb)]

ResolveOnceReady(S, name, cb) ==
    IF name \in DOMAIN S.idx
    THEN Callback(S, cb, S.idx[name], TRUE)
    ELSE [S EXCEPT !.later = LaterAppend(@, name, cb)]

\* isinstance(value, str) and value.startswith(IMPORT_SIGN)
IsReference(v) == v.t = "ref"

\* parse._resolve(collection, value, key, state)
Resolve(S, coll, value, key, st) ==
    IF IsReference(value)
    THEN ResolveOnceReady(
            [S EXCEPT !.states[st].unresolved = @ + 1, !.ncb = @ + 1],
            value.p,
            [id |-> S.ncb + 1, coll |-> coll, key |-> key, st |-> st, name |-> value.p])
    ELSE S

(* -------------------------- Factory Registry -------------------------- *)
(* An entry of _ConfigLoader._filters is [flt, fn, coll]: flt and fn name  *)
(* the predicate and the constructor, coll is the `collection` argument:   *)
(* None, a fixed name, or the function _get_entity_collection.             *)

NoColl == [ck |-> "none", name |-> ""]
NameColl(n) == [ck |-> "name", name |-> n]
FnColl == [ck |-> "fn", name |-> ""]

Factory(flt, fn, coll) == [flt |-> flt, fn |-> fn, coll |-> coll]

\* the two factories the module registers when it is imported
BuiltinFilters ==
    << Factory("entity_filter", "entity_factory", FnColl),
       Factory("re_chains", "load_chain", NameColl("chains")) >>

\* the two factories every Runner.init adds
RunnerFilters ==
    << Factory("re_logging", "init_loggers", NoColl),
       Factory("re_applications", "init_application", NameColl("applications")) >>

\* factories extension code may add before parse: a callable predicate that
\* accepts every node, and a constructor that builds, declines, returns None
\* or raises
ExtFactories ==
    { Factory("any", "ext_skip", NoColl),
      Factory("any", "ext_entity", NameColl("ext")),
      Factory("any", "ext_none", NameColl("ext")),
      Factory("any", "ext_raise", NoColl) }

\* r'^<head>\.[^.]+$' matched against the dotted path
ReUnder(head, path) == Len(path) = 2 /\ path[1] = head /\ path[2] # ""

\* flt(cfg, path)
Match(flt, ob, path) ==
    CASE flt = "entity_filter" -> DictHas(ob, SKey(IMPORT_KEY))
      [] flt = "re_chains" -> ReUnder("chains", path)
      [] flt = "re_applications" -> ReUnder("applications", path)
      [] flt = "re_logging" -> path = <<"logging">>
      [] OTHER -> TRUE

Returns(kind) == [res |-> "entity", kind |-> kind]
Skips == [res |-> "skip", kind |-> ""]
ReturnsNone == [res |-> "none", kind |-> ""]
ReturnsCfg == [res |-> "cfg", kind |-> ""]
Raises == [res |-> "raise", kind |-> ""]

\* load_path(init_path) and what entity_factory does with what it loads: the
\* value of the constructor key names a Chain subclass, an Application, a
\* class of COLLECTIONS or of none (Other; services.proxy.ProxyService, which
\* is no Service), a callable returning None, or one raising
EntityFactory(ob) ==
    LET init == DictGet(ob, SKey(IMPORT_KEY)) IN
    IF init.t # "str" THEN Raises
    ELSE CASE init.s = "Chain" -> Returns("Chain")
           [] init.s = "App" -> Skips
           [] init.s \in {"Service", "Filter", "Loader", "Condition", "Other",
                          "ProxyService"} ->
                Returns(init.s)
           [] init.s = "ReturnsNone" -> ReturnsNone
           [] OTHER -> Raises

\* the class defines `async def init`
ExposesInit(kind) == kind \in {"Service", "ProxyService"}

\* if isinstance(loaded, Service): await loaded.init()
AwaitsInit(kind) == kind = "Service"

\* the keyword arguments the constructor of entity_factory's entity gets:
\* init(**conf) with conf the Mapping less the constructor key, but
\* cls.connect(name=..., **cfg) with all of it for a Chain
CtorArgs(fn, ob, kind) ==
    IF fn = "entity_factory" /\ kind # "Chain"
    THEN [k \in {ob.keys[j] : j \in 1..Len(ob.keys)} \ {SKey(IMPORT_KEY)} |-> DictGet(ob, k)]
    ELSE [k \in {ob.keys[j] : j \in 1..Len(ob.keys)} |-> DictGet(ob, k)]

InitApplication(ob) ==
    IF DictHas(ob, SKey(IMPORT_KEY)) /\ DictGet(ob, SKey(IMPORT_KEY)) = StrV("App")
    THEN Returns("AppProxy")
    ELSE Raises

\* init_loggers iterates its argument and copies each item: a Mapping's
\* items are its str keys, which have no copy()
InitLoggers(ob) == IF Len(ob.keys) = 0 THEN ReturnsCfg ELSE Raises

\* node(cfg, path): what the constructor does
Construct(fn, ob, path) ==
    CASE fn = "entity_factory" -> EntityFactory(ob)
      [] fn = "load_chain" -> Returns("Chain")
      [] fn = "init_application" -> InitApplication(ob)
      [] fn = "init_loggers" -> InitLoggers(ob)
      [] fn = "ext_entity" -> Returns("Other")
      [] fn = "ext_skip" -> Skips
      [] fn = "ext_none" -> ReturnsNone
      [] OTHER -> Raises

\* _get_entity_collection over COLLECTIONS
GetEntityCollection(kind) ==
    CASE kind = "Chain" -> "chains"
      [] kind = "Service" -> "services"
      [] kind = "Filter" -> "filters"
      [] kind = "Loader" -> "loaders"
      [] kind = "Condition" -> "conditions"
      [] OTHER -> ""

\* `collection` is truthy
HasColl(coll) == coll.ck = "fn" \/ (coll.ck = "name" /\ coll.name # "")

\* the bucket: collection(node) if callable, else collection
Bucket(coll, kind) == IF coll.ck = "fn" THEN GetEntityCollection(kind) ELSE coll.name

\* path.rsplit('.', 1)[-1]
PathTail(path) == IF path = <<>> THEN "" ELSE path[Len(path)]

\* path.split('.')
Split(path) == IF path = <<>> THEN <<"">> ELSE path

\* ".".join([path, str(key)]) if path else str(key)
Join(path, seg) == IF path = <<>> THEN <<seg>> ELSE path \o <<seg>>

\* collections[bucket] = {tail: node}: the bucket's other entries are lost
ColSetOnly(c, b, k, v) ==
    [x \in DOMAIN c \cup {b} |-> IF x = b THEN [y \in {k} |-> v] ELSE c[x]]

\* collections[bucket][tail] = node on a defaultdict(AttrDict)
ColSet(c, b, k, v) ==
    [x \in DOMAIN c \cup {b} |->
        IF x = b
        THEN [y \in (IF b \in DOMAIN c THEN DOMAIN c[b] ELSE {}) \cup {k} |->
                IF y = k THEN v ELSE c[b][y]]
        ELSE c[x]]

(* ------------------------------- truth -------------------------------- *)

\* bool(v)
Truthy(v, h) ==
    CASE v.t = "none" -> FALSE
      [] v.t = "int" -> v.i # 0
      [] v.t = "str" -> v.s # ""
      [] v.t = "obj" -> Len(h[v.o].vals) > 0
      [] OTHER -> TRUE

IsDictV(v, h) == v.t = "obj" /\ IsDictObj(h[v.o])
IsListV(v, h) == v.t = "obj" /\ h[v.o].kind = "list"

(* ------------------------- input documents ---------------------------- *)

\* add_node calls made by extension code before Runner.init
MaxAddNode == 1

\* mutation attempts on a published Config Tree
MaxMutations == 1

\* Runner.init calls of one Runner
MaxInit == 2

Svc == Ent("Service", <<>>, <<>>)
SvcRef(p) == Ent("Service", <<"r">>, <<RefV(p)>>)

\* what a root key may hold; t is the root key its references name
Shapes(t) ==
    << IntV(42),
       RefV(<<t>>),
       Svc,
       SvcRef(<<t>>),
       Map(<<"y">>, <<IntV(42)>>),
       Map(<<"x">>, <<RefV(<<t, "y">>)>>),
       Map(<<"r", "k">>, <<RefV(<<t>>), Ent("Service", <<"s">>, <<RefV(<<t>>)>>)>>),
       Lst(<<RefV(<<t>>), Svc>>) >>

ShapeIds == 1..8

\* root keys a, b, c (the first n of them), a naming b, b naming c, c naming
\* a, declared in this order or in the reverse one
Target(k) == CASE k = "a" -> "b" [] k = "b" -> "c" [] OTHER -> "a"

Reverse(q) == [j \in 1..Len(q) |-> q[Len(q) + 1 - j]]

GenDoc(n, rev, sh) ==
    LET keys == SubSeq(<<"a", "b", "c">>, 1, n)
        kids == [j \in 1..n |-> Shapes(Target(keys[j]))[sh[j]]]
    IN IF rev THEN Map(Reverse(keys), Reverse(kids)) ELSE Map(keys, kids)

\* documents for the built-in factories, paths and constructor outcomes the
\* generated ones do not reach
SpecialDocs ==
    << \* the chain factory, by path
       Map(<<"chains">>, <<Map(<<"ethereum">>, <<Map(<<"rpc">>, <<StrV("http://x")>>)>>)>>),
       \* a node both built-in factories match
       Map(<<"chains">>, <<Map(<<"eth">>, <<Svc>>)>>),
       \* the generic entity factory and a service
       Map(<<"services">>, <<Map(<<"proxy">>,
            <<Ent("Service", <<"proxies">>, <<StrV("proxies.txt")>>)>>)>>),
       \* two Sequences of entity specifications in one Mapping
       Map(<<"a">>, <<Map(<<"p", "q">>,
            <<Lst(<<Ent("Service", <<"x">>, <<IntV(1)>>)>>),
              Lst(<<Ent("Service", <<"x">>, <<IntV(2)>>)>>)>>)>>),
       \* a Reference to a name two elements of sibling Sequences are
       \* registered under
       Map(<<"m">>, <<Map(<<"r", "a", "b", "s">>,
            <<RefV(<<"m", "0">>), Lst(<<Svc>>), Lst(<<Svc>>), RefV(<<"m", "0">>)>>)>>),
       \* a Reference to an entity only the repair pass constructs
       Map(<<"a", "b", "c">>, <<SvcRef(<<"b">>), Svc, SvcRef(<<"a">>)>>),
       \* an entity specification that holds a Mapping with a forward Reference
       Map(<<"a", "b">>,
           <<Ent("Service", <<"k">>, <<Map(<<"r">>, <<RefV(<<"b">>)>>)>>), Svc>>),
       \* a service class that is not a Service
       Map(<<"services">>, <<Map(<<"proxy">>,
            <<Ent("ProxyService", <<"proxies">>, <<StrV("proxies.txt")>>)>>)>>),
       \* an application, and an application outside applications.*
       Map(<<"applications", "a">>,
           <<Map(<<"app1">>, <<Ent("App", <<>>, <<>>)>>), Ent("App", <<>>, <<>>)>>),
       \* the logging section, empty and not
       Map(<<"logging", "a">>, <<Map(<<>>, <<>>), Svc>>),
       Map(<<"logging">>, <<Map(<<"level">>, <<StrV("INFO")>>)>>),
       \* the root is an entity specification
       Ent("Service", <<"a">>, <<IntV(42)>>),
       \* constructors that return None or raise
       Map(<<"a", "b">>, <<Ent("ReturnsNone", <<"x">>, <<RefV(<<"b">>)>>), Svc>>),
       Ent("ReturnsNone", <<"a">>, <<IntV(42)>>),
       Map(<<"a", "b">>, <<Ent("Raises", <<>>, <<>>), Svc>>),
       Map(<<"a", "b", "c">>, <<SvcRef(<<"b">>), Svc, Ent("Raises", <<>>, <<>>)>>),
       \* a constructor that raises in the fixpoint loop
       Map(<<"a", "b", "c">>, <<Ent("Raises", <<"r">>, <<RefV(<<"b">>)>>), Svc, Svc>>),
       \* a cycle of two, at the root and between entities
       Map(<<"a", "b">>, <<RefV(<<"b">>), RefV(<<"a">>)>>),
       Map(<<"a", "b">>, <<SvcRef(<<"b">>), SvcRef(<<"a">>)>>),
       \* entities of one kind with the same and with different last segments
       Map(<<"a", "b">>, <<Map(<<"x">>, <<Svc>>), Map(<<"x">>, <<Svc>>)>>),
       Map(<<"a", "b">>, <<Map(<<"x">>, <<Svc>>), Map(<<"z">>, <<Svc>>)>>),
       \* two Sequences of entity specifications in one Mapping
       Map(<<"a">>, <<Map(<<"p", "q">>, <<Lst(<<Svc, Svc>>), Lst(<<Ent("Chain", <<>>, <<>>)>>)>>)>>),
       \* a Sequence in a Sequence, and references in Sequences
       Map(<<"a", "b">>, <<Lst(<<Lst(<<RefV(<<"b">>)>>), RefV(<<"b">>)>>), Svc>>),
       Map(<<"b", "a">>, <<Svc, Map(<<"l">>, <<Lst(<<IntV(42), RefV(<<"b">>)>>)>>)>>),
       \* a reference before and one after the sibling it names
       Map(<<"a", "b", "c">>, <<RefV(<<"b">>), Svc, RefV(<<"b">>)>>),
       Map(<<"m">>, <<Map(<<"a", "b", "c">>,
                          <<RefV(<<"m", "b">>), Svc, RefV(<<"m", "b">>)>>)>>),
       \* a reference into a plain Mapping
       Map(<<"a", "c">>, <<Map(<<"x">>, <<RefV(<<"c", "y">>)>>),
                           Map(<<"y">>, <<IntV(42)>>)>>),
       \* the sign alone
       Map(<<"a", "b">>, <<RefV(<<>>), Svc>>),
       \* the empty Mapping
       Map(<<"a">>, <<Map(<<>>, <<>>)>>),
       \* a nested path: the reference names a.k
       Map(<<"b", "a">>, <<SvcRef(<<"a", "k">>), Map(<<"k">>, <<Svc>>)>>),
       Map(<<"a", "b">>, <<Map(<<"k">>, <<SvcRef(<<"b">>)>>), Svc>>),
       Map(<<"a", "b">>, <<Ent("Service", <<"k">>, <<SvcRef(<<"b">>)>>), Svc>>) >>

(* ------------------------------- state -------------------------------- *)

VARIABLES
    doc,                \* the document handed to Runner.init
    filters,            \* config_loader._filters
    runner_cfg,         \* Runner.cfg: NoneV or the document
    runner_tree,        \* Runner._tree: NoneV or the ConfigTree
    heap,               \* object id -> object
    states,             \* every state dict parse._parse_cfg created
    unresolved_states,  \* parse's list of deferred states (indices of states)
    idx, later,         \* _Resolver._idx, _Resolver._later
    ncb, fired, regs,   \* callbacks created; callback and register() logs
    collections,        \* parse's collections: bucket -> (key -> value)
    entities,           \* the entities constructed, in order
    calls,              \* log of constructor invocations, in order
    matched,            \* log of _get_node calls that returned
    stack,              \* the coroutine frames of parse
    pc,                 \* "setup", "run", "ret" (a callee returned), "done"
    ret,                \* the value the last callee returned
    parsed,             \* parse's local `parsed`
    unresolved,         \* parse's local `unresolved`
    result,             \* how parse ended
    nmut,               \* mutation attempts made on the published tree
    ninit,              \* Runner.init calls made
    prev                \* what the runs before this one left: <<>> or records

vars == <<doc, filters, runner_cfg, runner_tree, heap, states, unresolved_states,
          idx, later, ncb, fired, regs, collections, entities, calls, matched, stack,
          pc, ret, parsed, unresolved, result, nmut, ninit, prev>>

Store == [heap |-> heap, states |-> states, idx |-> idx, later |-> later,
          ncb |-> ncb, fired |-> fired, regs |-> regs]

SetStore(S) ==
    /\ heap' = S.heap
    /\ states' = S.states
    /\ idx' = S.idx
    /\ later' = S.later
    /\ ncb' = S.ncb
    /\ fired' = S.fired
    /\ regs' = S.regs

Frame(fn, obj, out, st, i, path, ctx) ==
    [fn |-> fn, obj |-> obj, out |-> out, st |-> st, i |-> i, path |-> path,
     ctx |-> ctx, par |-> NoneV, snap |-> FreeObj, cols |-> <<>>]

\* the frame of _get_node(cfg, path, collections), with cfg and collections
\* as they are at the call
NodeFrame(obj, st, path, ctx) ==
    [Frame("node", obj, NoId, st, 1, path, ctx) EXCEPT !.snap = heap[obj],
                                                       !.cols = collections]

Top == stack[Len(stack)]
Pop == SubSeq(stack, 1, Len(stack) - 1)
SetTop(f) == [stack EXCEPT ![Len(stack)] = f]

Running(fn) == pc = "run" /\ stack # <<>> /\ Top.fn = fn
Returned(fn) == pc = "ret" /\ stack # <<>> /\ Top.fn = fn

NoResult == [status |-> "none", names |-> <<>>]

\* the generated documents of at most m root keys
GenDocs(m) ==
    { GenDoc(x[1], x[2], x[3]) :
        x \in { y \in (1..m) \X BOOLEAN \X [1..3 -> ShapeIds] :
                  \A j \in (y[1] + 1)..3 : y[3][j] = 1 } }

\* the state after import of w3plex.core.config and Runner(), with the
\* document one of D
InitWith(D) ==
    /\ doc \in D
    /\ ninit = 0
    /\ prev = <<>>
    /\ filters = BuiltinFilters
    /\ runner_cfg = NoneV
    /\ runner_tree = NoneV
    /\ heap = LoadDoc(doc)
    /\ states = <<>>
    /\ unresolved_states = <<>>
    /\ idx = <<>>
    /\ later = <<>>
    /\ ncb = 0
    /\ fired = <<>>
    /\ regs = <<>>
    /\ collections = <<>>
    /\ entities = <<>>
    /\ calls = <<>>
    /\ matched = <<>>
    /\ stack = <<>>
    /\ pc = "setup"
    /\ ret = NoneV
    /\ parsed = NoneV
    /\ unresolved = <<>>
    /\ result = NoResult
    /\ nmut = 0

Init == InitWith(GenDocs(3) \cup {SpecialDocs[j] : j \in 1..Len(SpecialDocs)})

(* ------------------------ add_node, Runner.init ----------------------- *)

\* config_loader.add_node(flt, collection)(fn), by extension code
AddNode ==
    /\ pc = "setup"
    /\ Len(filters) < Len(BuiltinFilters) + MaxAddNode
    /\ \E f \in ExtFactories : filters' = Append(filters, f)
    /\ UNCHANGED <<doc, ninit, prev, runner_cfg, runner_tree, heap, states, unresolved_states,
                   idx, later, ncb, fired, regs, collections, entities, calls, matched,
                   stack, pc, ret, parsed, unresolved, result, nmut>>

\* a fresh state dict and AttrDict for the Mapping `obj` at `path`, and the
\* frame of the _parse_cfg call that fills them
CallParseCfg(S, obj, path) ==
    [S EXCEPT !.heap[OutOf(obj)] = NewAttrDict,
              !.states = Append(@, [parsed |-> OutOf(obj), unresolved |-> 0,
                                    path |-> path])]

CfgFrame(obj, path, st) == Frame("cfg", obj, OutOf(obj), st, 1, path, "dfs")

\* the document a Runner.init call is given: the first call the document
\* of the run, a later call that document again, as it is or with the keys
\* of its Mappings in another order
InitDocs == IF ninit = 0 THEN {doc} ELSE {doc, ReverseKeys(doc)}

\* Runner.init up to the call of parse, and parse up to the first _parse_cfg:
\* a fresh resolver, unresolved_states and collections
RunnerInit ==
    /\ pc = "setup"
    /\ runner_cfg = NoneV
    /\ ninit' = ninit + 1
    /\ filters' = filters \o RunnerFilters
    /\ runner_cfg' = ObjV(InId(<<>>))
    /\ \E d \in InitDocs :
         /\ doc' = d
         /\ SetStore(CallParseCfg([heap |-> [LoadDoc(d) EXCEPT ![TreeId] = heap[TreeId]],
                                   states |-> <<>>, idx |-> <<>>, later |-> <<>>,
                                   ncb |-> 0, fired |-> <<>>, regs |-> <<>>],
                                  InId(<<>>), <<>>))
    /\ unresolved_states' = <<>>
    /\ collections' = <<>>
    /\ entities' = <<>>
    /\ calls' = <<>>
    /\ matched' = <<>>
    /\ ret' = NoneV
    /\ parsed' = NoneV
    /\ unresolved' = <<>>
    /\ result' = NoResult
    /\ stack' = << Frame("parse", NoId, NoId, 0, 0, <<>>, "dfs"),
                   CfgFrame(InId(<<>>), <<>>, 1) >>
    /\ pc' = "run"
    /\ UNCHANGED <<runner_tree, nmut, prev>>

(* --------------------- parse._parse_cfg, _parse_item ------------------ *)

\* validate_relative_path and validate_relative_import return their argument
\* when root is None, which it is for a document without include paths
Validate(v) == v

\* if key not in parsed: parsed[key] = validate(value)
StoreParsed(S, out, key, v) ==
    IF DictHas(S.heap[out], key)
    THEN S
    ELSE [S EXCEPT !.heap[out] = DictSet(@, key, Validate(v))]

\* _parse_item without the isinstance(entity, dict) test
AfterParseCfgAny(S, entity, value_path) ==
    IF Truthy(entity, S.heap)
    THEN Register(S, value_path, entity)
    ELSE S

AfterParseCfgNotDict(S, entity, value_path) ==
    IF ~IsDictV(entity, S.heap)
    THEN Register(S, value_path, entity)
    ELSE S

\* what _parse_item does with what _parse_cfg returned for the Mapping `raw`
\* at value_path: register an entity, keep the raw Mapping for a falsy result
AfterParseCfg(S, entity, value_path) ==
    IF Truthy(entity, S.heap) /\ ~IsDictV(entity, S.heap)
    THEN Register(S, value_path, entity)
    ELSE S

ItemValue(S, entity, raw) == IF Truthy(entity, S.heap) THEN entity ELSE raw

CurKey == heap[Top.obj].keys[Top.i]
CurVal == heap[Top.obj].vals[Top.i]
MoreItems == Top.i <= Len(heap[Top.obj].vals)

UnchangedOutside ==
    UNCHANGED <<doc, ninit, prev, filters, runner_cfg, runner_tree, unresolved_states,
                collections, entities, calls, matched, parsed, unresolved, result, nmut>>

\* one key of a Mapping whose value is a scalar
ParseItemScalar ==
    /\ Running("cfg") /\ MoreItems
    /\ CurVal.t # "obj"
    /\ SetStore(StoreParsed(Resolve(Store, Top.out, CurVal, CurKey, Top.st),
                            Top.out, CurKey, CurVal))
    /\ stack' = SetTop([Top EXCEPT !.i = @ + 1])
    /\ UNCHANGED <<pc, ret>>
    /\ UnchangedOutside

\* one key whose value is a Mapping: the call of _parse_cfg
\* _parse_item that goes on to the next key without awaiting _parse_cfg
ParseItemDictNoAwait ==
    /\ Running("cfg") /\ MoreItems
    /\ IsDictV(CurVal, heap)
    /\ SetStore(StoreParsed(Store, Top.out, CurKey, CurVal))
    /\ stack' = SetTop([Top EXCEPT !.i = @ + 1])
    /\ UNCHANGED <<pc, ret>>
    /\ UnchangedOutside

ParseItemDict ==
    /\ Running("cfg") /\ MoreItems
    /\ IsDictV(CurVal, heap)
    /\ LET value_path == Join(Top.path, StrOf(CurKey)) IN
       /\ SetStore(CallParseCfg(Store, CurVal.o, value_path))
       /\ stack' = Append(stack, CfgFrame(CurVal.o, value_path, Len(states) + 1))
    /\ UNCHANGED <<pc, ret>>
    /\ UnchangedOutside

\* _parse_cfg returned to the Mapping that holds the child
ParseItemDictReturn ==
    /\ Returned("cfg")
    /\ IsDictV(CurVal, heap)
    /\ LET value_path == Join(Top.path, StrOf(CurKey))
           S1 == AfterParseCfg(Store, ret, value_path)
       IN SetStore(StoreParsed(S1, Top.out, CurKey, ItemValue(Store, ret, CurVal)))
    /\ stack' = SetTop([Top EXCEPT !.i = @ + 1])
    /\ pc' = "run"
    /\ UNCHANGED ret
    /\ UnchangedOutside

\* one key whose value is a Sequence: parsed = [] and the loop over it
ParseItemList ==
    /\ Running("cfg") /\ MoreItems
    /\ IsListV(CurVal, heap)
    /\ heap' = [heap EXCEPT ![OutOf(CurVal.o)] = NewList]
    /\ stack' = Append(stack, Frame("lst", CurVal.o, OutOf(CurVal.o), Top.st, 1,
                                    Top.path, "dfs"))
    /\ UNCHANGED <<pc, ret, states, idx, later, ncb, fired, regs>>
    /\ UnchangedOutside

\* the Sequence was parsed: value = parsed
ParseItemListReturn ==
    /\ Returned("cfg")
    /\ IsListV(CurVal, heap)
    /\ SetStore(StoreParsed(Store, Top.out, CurKey, ret))
    /\ stack' = SetTop([Top EXCEPT !.i = @ + 1])
    /\ pc' = "run"
    /\ UNCHANGED ret
    /\ UnchangedOutside

\* one scalar element: _parse_item(i, item, state, path) takes the str
\* branch with key i, its result is appended, then _resolve(value, item, i, state)
ListItemScalar ==
    /\ Running("lst") /\ MoreItems
    /\ CurVal.t # "obj"
    /\ LET i == Top.i - 1
           item == CurVal
           S1 == Resolve(Store, states[Top.st].parsed, item, IKey(i), Top.st)
           S2 == [S1 EXCEPT !.heap[Top.out].vals = Append(@, item)]
       IN SetStore(Resolve(S2, Top.obj, item, IKey(i), Top.st))
    /\ stack' = SetTop([Top EXCEPT !.i = @ + 1])
    /\ UNCHANGED <<pc, ret>>
    /\ UnchangedOutside

\* one element that is a Mapping: _parse_cfg at path.i
ListItemDict ==
    /\ Running("lst") /\ MoreItems
    /\ IsDictV(CurVal, heap)
    /\ LET value_path == Join(Top.path, StrOf(IKey(Top.i - 1))) IN
       /\ SetStore(CallParseCfg(Store, CurVal.o, value_path))
       /\ stack' = Append(stack, CfgFrame(CurVal.o, value_path, Len(states) + 1))
    /\ UNCHANGED <<pc, ret>>
    /\ UnchangedOutside

ListItemDictReturn ==
    /\ Returned("lst")
    /\ IsDictV(CurVal, heap)
    /\ LET value_path == Join(Top.path, StrOf(IKey(Top.i - 1)))
           S1 == AfterParseCfg(Store, ret, value_path)
       IN SetStore([S1 EXCEPT !.heap[Top.out].vals =
                                  Append(@, ItemValue(Store, ret, CurVal))])
    /\ stack' = SetTop([Top EXCEPT !.i = @ + 1])
    /\ pc' = "run"
    /\ UNCHANGED ret
    /\ UnchangedOutside

\* one element that is a Sequence
ListItemList ==
    /\ Running("lst") /\ MoreItems
    /\ IsListV(CurVal, heap)
    /\ heap' = [heap EXCEPT ![OutOf(CurVal.o)] = NewList]
    /\ stack' = Append(stack, Frame("lst", CurVal.o, OutOf(CurVal.o), Top.st, 1,
                                    Top.path, "dfs"))
    /\ UNCHANGED <<pc, ret, states, idx, later, ncb, fired, regs>>
    /\ UnchangedOutside

ListItemListReturn ==
    /\ Returned("lst")
    /\ IsListV(CurVal, heap)
    /\ heap' = [heap EXCEPT ![Top.out].vals = Append(@, ret)]
    /\ stack' = SetTop([Top EXCEPT !.i = @ + 1])
    /\ pc' = "run"
    /\ UNCHANGED <<ret, states, idx, later, ncb, fired, regs>>
    /\ UnchangedOutside

\* the Sequence is exhausted: return parsed
ListEnd ==
    /\ Running("lst") /\ ~MoreItems
    /\ ret' = ObjV(Top.out)
    /\ stack' = Pop
    /\ pc' = "ret"
    /\ UNCHANGED <<heap, states, idx, later, ncb, fired, regs>>
    /\ UnchangedOutside

\* the Mapping is exhausted with references outstanding: defer it
ParseCfgDefer ==
    /\ Running("cfg") /\ ~MoreItems
    /\ states[Top.st].unresolved # 0
    /\ unresolved_states' = Append(unresolved_states, Top.st)
    /\ ret' = NoneV
    /\ stack' = Pop
    /\ pc' = "ret"
    /\ UNCHANGED <<doc, ninit, prev, filters, runner_cfg, runner_tree, heap, states, idx, later,
                   ncb, fired, regs, collections, entities, calls, matched, parsed,
                   unresolved, result, nmut>>

\* the Mapping is exhausted with none outstanding: return _get_node(parsed, path)
ParseCfgGetNode ==
    /\ Running("cfg") /\ ~MoreItems
    /\ states[Top.st].unresolved = 0
    /\ stack' = SetTop(NodeFrame(Top.out, Top.st, Top.path, "dfs"))
    /\ UNCHANGED <<doc, ninit, prev, filters, runner_cfg, runner_tree, heap, states,
                   unresolved_states, idx, later, ncb, fired, regs, collections,
                   entities, calls, matched, pc, ret, parsed, unresolved, result, nmut>>

(* ------------------------ _ConfigLoader._get_node --------------------- *)
(* A "node" frame is _get_node(cfg, path) at `for flt, node, collection in *)
(* self._filters[::-1]`: i is the position in the reversed list of the     *)
(* entry at hand; past its length when the loop is exhausted.              *)

\* self._filters in registration order
FactoryOrderFifo == [k \in 1..Len(filters) |-> k]

\* self._filters[::-1], as indices into _filters
FactoryOrder == [k \in 1..Len(filters) |-> Len(filters) + 1 - k]

Exhausted == Top.i > Len(filters)
CurIndex == FactoryOrder[Top.i]
CurFactory == filters[CurIndex]
CurMatch == Match(CurFactory.flt, heap[Top.obj], Top.path)
CurOutcome == Construct(CurFactory.fn, heap[Top.obj], Top.path)

Abort(status, names) ==
    /\ result' = [status |-> status, names |-> names]
    /\ stack' = <<>>
    /\ pc' = "done"

\* flt(cfg, path) is false: the next entry
GetNodeMiss ==
    /\ Running("node") /\ ~Exhausted
    /\ ~CurMatch
    /\ stack' = SetTop([Top EXCEPT !.i = @ + 1])
    /\ UNCHANGED <<doc, ninit, prev, filters, runner_cfg, runner_tree, heap, states,
                   unresolved_states, idx, later, ncb, fired, regs, collections,
                   entities, calls, matched, pc, ret, parsed, unresolved, result, nmut>>

\* node(cfg, path) was invoked for the factory at hand, and ended as res
Call(res) ==
    [node |-> Top.obj, path |-> Top.path, cfg |-> heap[Top.obj], fac |-> CurIndex,
     res |-> res, ctx |-> Top.ctx]

\* the constructor raises SkipNode: continue
GetNodeSkip ==
    /\ Running("node") /\ ~Exhausted
    /\ CurMatch
    /\ CurOutcome.res = "skip"
    /\ calls' = Append(calls, Call("skip"))
    /\ stack' = SetTop([Top EXCEPT !.i = @ + 1])
    /\ UNCHANGED <<doc, ninit, prev, filters, runner_cfg, runner_tree, heap, states,
                   unresolved_states, idx, later, ncb, fired, regs, collections,
                   entities, matched, pc, ret, parsed, unresolved, result, nmut>>

\* the value the constructor returns: a new entity, None, or its cfg
Constructed(out) ==
    CASE out.res = "entity" -> EntV(Len(entities) + 1)
      [] out.res = "cfg" -> ObjV(Top.obj)
      [] OTHER -> NoneV

\* _get_node returned v, leaving collections as c
Matched(v, c) ==
    [node |-> Top.obj, path |-> Top.path, st |-> Top.st, ctx |-> Top.ctx,
     ret |-> v, snap |-> Top.snap, obj |-> heap[Top.obj], cols0 |-> Top.cols,
     cols |-> c, unresolved |-> states[Top.st].unresolved]

\* the constructor returns: classify a truthy node, return it
GetNodeReturn ==
    /\ Running("node") /\ ~Exhausted
    /\ CurMatch
    /\ CurOutcome.res \in {"entity", "none", "cfg"}
    /\ LET node == Constructed(CurOutcome)
           cols == IF Truthy(node, heap) /\ HasColl(CurFactory.coll)
                   THEN ColSet(collections,
                               Bucket(CurFactory.coll, CurOutcome.kind),
                               PathTail(Top.path), node)
                   ELSE collections
       IN
       /\ entities' = IF CurOutcome.res = "entity"
                      THEN Append(entities, [node |-> Top.obj, path |-> Top.path,
                                             fac |-> CurIndex,
                                             kind |-> CurOutcome.kind,
                                             ctx |-> Top.ctx,
                                             kwargs |-> CtorArgs(CurFactory.fn,
                                                                 heap[Top.obj],
                                                                 CurOutcome.kind),
                                             inited |-> CurFactory.fn = "entity_factory"
                                                        /\ AwaitsInit(CurOutcome.kind)])
                      ELSE entities
       /\ collections' = cols
       /\ ret' = node
       /\ matched' = Append(matched, Matched(node, cols))
    /\ calls' = Append(calls, Call(CurOutcome.res))
    /\ stack' = Pop
    /\ pc' = "ret"
    /\ UNCHANGED <<doc, ninit, prev, filters, runner_cfg, runner_tree, heap, states,
                   unresolved_states, idx, later, ncb, fired, regs, parsed,
                   unresolved, result, nmut>>

\* _get_node with `except Exception: continue`
GetNodeRaiseSwallow ==
    /\ Running("node") /\ ~Exhausted
    /\ CurMatch
    /\ CurOutcome.res = "raise"
    /\ calls' = Append(calls, Call("raise"))
    /\ stack' = SetTop([Top EXCEPT !.i = @ + 1])
    /\ UNCHANGED <<doc, ninit, prev, filters, runner_cfg, runner_tree, heap, states,
                   unresolved_states, idx, later, ncb, fired, regs, collections,
                   entities, matched, pc, ret, parsed, unresolved, result, nmut>>

\* the constructor raises: the exception leaves _get_node and parse
GetNodeRaise ==
    /\ Running("node") /\ ~Exhausted
    /\ CurMatch
    /\ CurOutcome.res = "raise"
    /\ calls' = Append(calls, Call("raise"))
    /\ Abort("ConstructorError", <<>>)
    /\ UNCHANGED <<doc, ninit, prev, filters, runner_cfg, runner_tree, heap, states,
                   unresolved_states, idx, later, ncb, fired, regs, collections,
                   entities, matched, ret, parsed, unresolved, nmut>>

\* _get_node ending in `return None`
GetNodeDefaultNone ==
    /\ Running("node") /\ Exhausted
    /\ ret' = NoneV
    /\ matched' = Append(matched, Matched(NoneV, collections))
    /\ stack' = Pop
    /\ pc' = "ret"
    /\ UNCHANGED <<doc, ninit, prev, filters, runner_cfg, runner_tree, heap, states,
                   unresolved_states, idx, later, ncb, fired, regs, collections,
                   entities, calls, parsed, unresolved, result, nmut>>

\* no entry is left: return cfg
GetNodeDefault ==
    /\ Running("node") /\ Exhausted
    /\ ret' = ObjV(Top.obj)
    /\ matched' = Append(matched, Matched(ObjV(Top.obj), collections))
    /\ stack' = Pop
    /\ pc' = "ret"
    /\ UNCHANGED <<doc, ninit, prev, filters, runner_cfg, runner_tree, heap, states,
                   unresolved_states, idx, later, ncb, fired, regs, collections,
                   entities, calls, parsed, unresolved, result, nmut>>

(* ------------------------ parse: the fixpoint loop -------------------- *)
(* The "parse" frame is parse itself: ctx "dfs" while the first _parse_cfg *)
(* runs, "loop" in the while loop (i is its index i), "final" after it.    *)

\* parsed = await _parse_cfg(cfg, "", ...); unresolved = resolver.get_unresolved()
ParseRootReturn ==
    /\ Returned("parse") /\ Top.ctx = "dfs"
    /\ parsed' = ret
    /\ unresolved' = GetUnresolved(later)
    /\ stack' = SetTop([Top EXCEPT !.ctx = "loop", !.i = 0])
    /\ pc' = "run"
    /\ UNCHANGED <<doc, ninit, prev, filters, runner_cfg, runner_tree, heap, states,
                   unresolved_states, idx, later, ncb, fired, regs, collections,
                   entities, calls, matched, ret, result, nmut>>

Scanning == Running("parse") /\ Top.ctx = "loop" /\ Top.i < Len(unresolved_states)
ScanState == unresolved_states[Top.i + 1]

\* for item in path[:-1]: parent = parent[item]
RECURSIVE Walk(_, _, _)
Walk(v, segs, h) ==
    IF segs = <<>> THEN [ok |-> TRUE, v |-> v, err |-> ""]
    ELSE IF ~IsDictV(v, h) THEN [ok |-> FALSE, v |-> v, err |-> "TypeError"]
    ELSE IF ~DictHas(h[v.o], SKey(Head(segs)))
         THEN [ok |-> FALSE, v |-> v, err |-> "KeyError"]
    ELSE Walk(DictGet(h[v.o], SKey(Head(segs))), Tail(segs), h)

Front(q) == SubSeq(q, 1, Len(q) - 1)
Last(q) == q[Len(q)]

ScanWalk == Walk(parsed, Front(Split(states[ScanState].path)), heap)

\* state['unresolved'] != 0: i += 1
LoopSkip ==
    /\ Scanning
    /\ states[ScanState].unresolved # 0
    /\ stack' = SetTop([Top EXCEPT !.i = @ + 1])
    /\ UNCHANGED <<doc, ninit, prev, filters, runner_cfg, runner_tree, heap, states,
                   unresolved_states, idx, later, ncb, fired, regs, collections,
                   entities, calls, matched, pc, ret, parsed, unresolved, result, nmut>>

\* state['unresolved'] == 0: find the parent, call _get_node
LoopGetNode ==
    /\ Scanning
    /\ states[ScanState].unresolved = 0
    /\ ScanWalk.ok
    /\ stack' = Append(SetTop([Top EXCEPT !.par = ScanWalk.v]),
                       NodeFrame(states[ScanState].parsed, ScanState,
                                 states[ScanState].path, "loop"))
    /\ UNCHANGED <<doc, ninit, prev, filters, runner_cfg, runner_tree, heap, states,
                   unresolved_states, idx, later, ncb, fired, regs, collections,
                   entities, calls, matched, pc, ret, parsed, unresolved, result, nmut>>

\* parent[item] raises on the way to the parent
LoopWalkError ==
    /\ Scanning
    /\ states[ScanState].unresolved = 0
    /\ ~ScanWalk.ok
    /\ Abort(ScanWalk.err, <<>>)
    /\ UNCHANGED <<doc, ninit, prev, filters, runner_cfg, runner_tree, heap, states,
                   unresolved_states, idx, later, ncb, fired, regs, collections,
                   entities, calls, matched, ret, parsed, unresolved, nmut>>

RemoveAt(q, j) == SubSeq(q, 1, j - 1) \o SubSeq(q, j + 1, Len(q))

\* parent[path[-1]] = <what _get_node returned>; unresolved_states.pop(i)
LoopSplice ==
    /\ Returned("parse") /\ Top.ctx = "loop"
    /\ IsDictV(Top.par, heap)
    /\ heap' = [heap EXCEPT ![Top.par.o] =
                   DictSet(@, SKey(Last(Split(states[ScanState].path))), ret)]
    /\ unresolved_states' = RemoveAt(unresolved_states, Top.i + 1)
    /\ pc' = "run"
    /\ UNCHANGED <<doc, ninit, prev, filters, runner_cfg, runner_tree, states, idx, later, ncb,
                   fired, regs, collections, entities, calls, matched, stack, ret, parsed,
                   unresolved, result, nmut>>

\* the parent is None, an entity, a list or a scalar: the item assignment raises
LoopSpliceError ==
    /\ Returned("parse") /\ Top.ctx = "loop"
    /\ ~IsDictV(Top.par, heap)
    /\ Abort("TypeError", <<>>)
    /\ UNCHANGED <<doc, ninit, prev, filters, runner_cfg, runner_tree, heap, states,
                   unresolved_states, idx, later, ncb, fired, regs, collections,
                   entities, calls, matched, ret, parsed, unresolved, nmut>>

\* a loop that scans again as long as a name is pending
LoopEndWhilePending ==
    /\ Running("parse") /\ Top.ctx = "loop"
    /\ Top.i >= Len(unresolved_states)
    /\ stack' = SetTop(IF GetUnresolved(later) = <<>>
                       THEN [Top EXCEPT !.ctx = "final"]
                       ELSE [Top EXCEPT !.i = 0])
    /\ UNCHANGED <<doc, ninit, prev, filters, runner_cfg, runner_tree, heap, states,
                   unresolved_states, idx, later, ncb, fired, regs, collections,
                   entities, calls, matched, pc, ret, parsed, unresolved, result, nmut>>

\* the scan is over: break if the pending names are those taken before the
\* loop, else scan again
LoopEnd ==
    /\ Running("parse") /\ Top.ctx = "loop"
    /\ Top.i >= Len(unresolved_states)
    /\ stack' = SetTop(IF unresolved = GetUnresolved(later)
                       THEN [Top EXCEPT !.ctx = "final"]
                       ELSE [Top EXCEPT !.i = 0])
    /\ UNCHANGED <<doc, ninit, prev, filters, runner_cfg, runner_tree, heap, states,
                   unresolved_states, idx, later, ncb, fired, regs, collections,
                   entities, calls, matched, pc, ret, parsed, unresolved, result, nmut>>

Final == Running("parse") /\ Top.ctx = "final"

\* raise ConfigError("Can't resolve config items: ...")
ParseRaise ==
    /\ Final
    /\ GetUnresolved(later) # <<>>
    /\ Abort("ConfigError", GetUnresolved(later))
    /\ UNCHANGED <<doc, ninit, prev, filters, runner_cfg, runner_tree, heap, states,
                   unresolved_states, idx, later, ncb, fired, regs, collections,
                   entities, calls, matched, ret, parsed, unresolved, nmut>>

\* return ConfigTree(parsed, collections): dict.__init__ copies the entries
\* of parsed; Runner.init stores the tree
ParseReturn ==
    /\ Final
    /\ GetUnresolved(later) = <<>>
    /\ IsDictV(parsed, heap)
    /\ heap' = [heap EXCEPT ![TreeId] = [heap[parsed.o] EXCEPT !.kind = "attr"]]
    /\ runner_tree' = ObjV(TreeId)
    /\ result' = [status |-> "ok", names |-> <<>>]
    /\ stack' = <<>>
    /\ pc' = "done"
    /\ UNCHANGED <<doc, ninit, prev, filters, runner_cfg, states, unresolved_states, idx, later,
                   ncb, fired, regs, collections, entities, calls, matched, ret, parsed,
                   unresolved, nmut>>

\* ConfigTree(parsed, collections) with parsed None or an entity: dict() raises
ParseReturnError ==
    /\ Final
    /\ GetUnresolved(later) = <<>>
    /\ ~IsDictV(parsed, heap)
    /\ Abort("TypeError", <<>>)
    /\ UNCHANGED <<doc, ninit, prev, filters, runner_cfg, runner_tree, heap, states,
                   unresolved_states, idx, later, ncb, fired, regs, collections,
                   entities, calls, matched, ret, parsed, unresolved, nmut>>

(* ------------------------------ ConfigTree ---------------------------- *)
(* ConfigTree and AttrDict define no __setitem__, __delitem__ or           *)
(* __setattr__: item assignment and deletion are dict's.                   *)

TreeKeys == {SKey("a"), SKey("b"), SKey("new")}

\* tree[key] = value
TreeSetItem ==
    /\ pc = "done" /\ result.status = "ok"
    /\ nmut < MaxMutations
    /\ \E k \in TreeKeys :
         heap' = [heap EXCEPT ![TreeId] = DictSet(@, k, IntV(7))]
    /\ nmut' = nmut + 1
    /\ UNCHANGED <<doc, ninit, prev, filters, runner_cfg, runner_tree, states, unresolved_states,
                   idx, later, ncb, fired, regs, collections, entities, calls, matched,
                   stack, pc, ret, parsed, unresolved, result>>

\* del tree[key], for a key the tree holds
TreeDelItem ==
    /\ pc = "done" /\ result.status = "ok"
    /\ nmut < MaxMutations
    /\ \E k \in TreeKeys :
         /\ DictHas(heap[TreeId], k)
         /\ heap' = [heap EXCEPT ![TreeId] = DictDel(@, k)]
    /\ nmut' = nmut + 1
    /\ UNCHANGED <<doc, ninit, prev, filters, runner_cfg, runner_tree, states, unresolved_states,
                   idx, later, ncb, fired, regs, collections, entities, calls, matched,
                   stack, pc, ret, parsed, unresolved, result>>

(* --------------------------- Runner.finalize -------------------------- *)

\* a document subtree as a set of <<key path, scalar or container>>, which
\* is what dict equality compares: the order of keys does not count
RECURSIVE FlatDoc(_, _)
FlatDoc(node, at) ==
    IF IsContainer(node)
    THEN {<<at, [t |-> node.t, i |-> Len(node.kids), s |-> "", p |-> <<>>, o |-> NoId]>>}
         \cup UNION { FlatDoc(node.kids[j],
                              Append(at, IF node.t = "map" THEN SKey(node.keys[j])
                                         ELSE IKey(j - 1))) :
                      j \in 1..Len(node.kids) }
    ELSE {<<at, node>>}

\* a value of the heap as such a set; an entity is its class, the path it
\* was constructed at and the Mapping it was constructed from
RECURSIVE Flat(_, _)
Flat(v, at) ==
    CASE v.t = "obj" ->
           LET ob == heap[v.o] IN
           {<<at, [t |-> IF IsDictObj(ob) THEN "map" ELSE "list", i |-> Len(ob.vals),
                   s |-> "", p |-> <<>>, o |-> NoId]>>}
           \cup UNION { Flat(ob.vals[j],
                             Append(at, IF IsDictObj(ob) THEN ob.keys[j] ELSE IKey(j - 1))) :
                        j \in 1..Len(ob.vals) }
      [] v.t = "ent" ->
           {<<at, [t |-> "ent", i |-> 0, s |-> entities[v.i].kind,
                   p |-> entities[v.i].path, o |-> NoId]>>}
           \cup FlatDoc(At(doc, Tail(entities[v.i].node)), Append(at, IKey(-2)))
      [] OTHER -> {<<at, v>>}

\* collections as a set of <<bucket, key, value>>
FlatCollections ==
    UNION { { <<b, k, Flat(collections[b][k], <<>>)>> : k \in DOMAIN collections[b] } :
            b \in DOMAIN collections }

\* what a run leaves behind when the Runner is finalized
Outcome ==
    [doc |-> doc, filters |-> filters, status |-> result.status, nmut |-> nmut,
     tree |-> IF result.status = "ok" THEN Flat(ObjV(TreeId), <<>>) ELSE {},
     cols |-> FlatCollections]

\* Runner.is_initialized
IsInitialized == runner_cfg # NoneV

\* await runner.finalize(): cfg and cfg_path are set to None, and nothing
\* else is: the tree and the factories Runner.init added stay
Finalize ==
    /\ pc = "done"
    /\ runner_cfg # NoneV
    /\ ninit < MaxInit
    /\ runner_cfg' = NoneV
    /\ prev' = Append(prev, Outcome)
    /\ pc' = "setup"
    /\ UNCHANGED <<doc, ninit, filters, runner_tree, heap, states, unresolved_states,
                   idx, later, ncb, fired, regs, collections, entities, calls, matched,
                   stack, ret, parsed, unresolved, result, nmut>>

Next ==
    \/ AddNode
    \/ RunnerInit
    \/ ParseItemScalar
    \/ ParseItemDict
    \/ ParseItemDictReturn
    \/ ParseItemList
    \/ ParseItemListReturn
    \/ ListItemScalar
    \/ ListItemDict
    \/ ListItemDictReturn
    \/ ListItemList
    \/ ListItemListReturn
    \/ ListEnd
    \/ ParseCfgDefer
    \/ ParseCfgGetNode
    \/ GetNodeMiss
    \/ GetNodeSkip
    \/ GetNodeReturn
    \/ GetNodeRaise
    \/ GetNodeDefault
    \/ ParseRootReturn
    \/ LoopSkip
    \/ LoopGetNode
    \/ LoopWalkError
    \/ LoopSplice
    \/ LoopSpliceError
    \/ LoopEnd
    \/ ParseRaise
    \/ ParseReturn
    \/ ParseReturnError
    \/ TreeSetItem
    \/ TreeDelItem

Spec == Init /\ [][Next]_vars

\* the steps of config_loader.parse: the event loop runs the coroutine
\* until it returns or raises
ParseStep ==
    \/ ParseItemScalar
    \/ ParseItemDict
    \/ ParseItemDictReturn
    \/ ParseItemList
    \/ ParseItemListReturn
    \/ ListItemScalar
    \/ ListItemDict
    \/ ListItemDictReturn
    \/ ListItemList
    \/ ListItemListReturn
    \/ ListEnd
    \/ ParseCfgDefer
    \/ ParseCfgGetNode
    \/ GetNodeMiss
    \/ GetNodeSkip
    \/ GetNodeReturn
    \/ GetNodeRaise
    \/ GetNodeDefault
    \/ ParseRootReturn
    \/ LoopSkip
    \/ LoopGetNode
    \/ LoopWalkError
    \/ LoopSplice
    \/ LoopSpliceError
    \/ LoopEnd
    \/ ParseRaise
    \/ ParseReturn
    \/ ParseReturnError

\* a Runner that is finalized and initialised again
InitReinit == InitWith(GenDocs(2) \cup {SpecialDocs[j] : j \in 1..Len(SpecialDocs)})

NextReinit == Next \/ Finalize

SpecReinit == InitReinit /\ [][NextReinit]_vars

\* a parse that is started is run on: asyncio runs a coroutine whose awaits
\* all complete, and the constructors terminate
SpecLive == InitReinit /\ [][Next]_vars /\ WF_vars(ParseStep)

(* --------------------------- the document ----------------------------- *)

Done == pc = "done"

\* the _parse_cfg calls the depth-first pass makes on a document: the
\* position of each Mapping and the path it is parsed at (an element of a
\* Sequence is parsed at <path of the enclosing Mapping>.<index>)
RECURSIVE DocCalls(_, _, _)
DocCalls(node, pos, path) ==
    (IF node.t = "map" THEN {[pos |-> pos, path |-> path]} ELSE {}) \cup
    UNION { LET kid == node.kids[j]
                seg == IF node.t = "map" THEN node.keys[j] ELSE ToString(j - 1)
            IN IF kid.t = "map" THEN DocCalls(kid, pos \o <<j>>, Join(path, seg))
               ELSE IF kid.t = "list" THEN DocCalls(kid, pos \o <<j>>, path)
               ELSE {} : j \in 1..Len(node.kids) }

\* the References of a document: where each stands and the path it names
DocRefs(d) ==
    UNION { { [pos |-> q \o <<j>>, name |-> At(d, q).kids[j].p] :
                j \in { j \in 1..Len(At(d, q).kids) : At(d, q).kids[j].t = "ref" } } :
            q \in Positions(d) }

\* the paths of the scalars a document's Mappings hold
ScalarPaths(d) ==
    UNION { { Join(c.path, At(d, c.pos).keys[j]) :
                j \in { j \in 1..Len(At(d, c.pos).kids) :
                          ~IsContainer(At(d, c.pos).kids[j]) } } :
            c \in DocCalls(d, <<>>, <<>>) }

HasCtor(node) == node.t = "map" /\ node.keys # <<>> /\ node.keys[1] = IMPORT_KEY

\* Mappings the generic entity factory turns into an Entity
EntitySpecs(d) ==
    { c \in DocCalls(d, <<>>, <<>>) :
        /\ HasCtor(At(d, c.pos))
        /\ At(d, c.pos).kids[1].t = "str"
        /\ At(d, c.pos).kids[1].s \in {"Service", "Filter", "Loader", "Condition"} }

IsPrefix(p, q) == Len(p) <= Len(q) /\ SubSeq(q, 1, Len(p)) = p

\* <<P, Q>>: the entity specification at path P holds a Reference naming Q
Needs(d) ==
    { <<c.path, r.name>> :
        <<c, r>> \in { x \in EntitySpecs(d) \X DocRefs(d) : IsPrefix(x[1].pos, x[2].pos) } }

RECURSIVE ReachFrom(_, _, _)
ReachFrom(R, X, n) ==
    IF n = 0 THEN X
    ELSE ReachFrom(R, X \cup { e[2] : e \in { e \in R : e[1] \in X } }, n - 1)

Acyclic(d) ==
    \A e \in Needs(d) : e[1] \notin ReachFrom(Needs(d), {e[2]}, Cardinality(Needs(d)))

\* a value holds a Reference, at any depth
RECURSIVE HoldsRef(_, _)
HoldsRef(v, h) ==
    \/ v.t = "ref"
    \/ /\ v.t = "obj"
       /\ \E j \in 1..Len(h[v.o].vals) : HoldsRef(h[v.o].vals[j], h)

\* tree[p1][p2]...: the value at a path of the published tree
TreeAt(path) == Walk(ObjV(TreeId), path, heap)

(* ------------------------------ claims -------------------------------- *)

\* only the built-in and the Runner's factories are registered
StockFactories == filters = BuiltinFilters \o RunnerFilters

\* the document holds References, each names an entity specification, they
\* form no cycle, the root is a plain Mapping, every constructor key names an
\* entity class, and only the stock factories are registered
C1_Resolvable ==
    /\ StockFactories
    /\ DocRefs(doc) # {}
    /\ ~HasCtor(doc)
    /\ \A r \in DocRefs(doc) : \E c \in EntitySpecs(doc) : c.path = r.name
    /\ \A c \in DocCalls(doc, <<>>, <<>>) :
         HasCtor(At(doc, c.pos)) => c \in EntitySpecs(doc)
    /\ \A c \in DocCalls(doc, <<>>, <<>>) :
         c.path = <<>> \/ c.path[1] \notin {"logging", "applications", "chains"}
    /\ Acyclic(doc)

\* C1: for every document in which each Reference names the path of a
\* Mapping that a factory turns into an Entity and the references form no
\* cycle, parse ends in success and no Reference is left in the returned
\* tree, chains of forward references included.
C1_AcyclicReferencesResolve ==
    (Done /\ C1_Resolvable) =>
        /\ result.status = "ok"
        /\ ~HoldsRef(runner_tree, heap)

\* C2: in a Mapping where key a holds the Reference to its sibling b and b
\* is a Mapping whose entry in the resolved Mapping is the entity built from
\* it, a's entry is that same entity once both keys are parsed, whichever of
\* the two is declared first.
C2_SiblingReferenceResolved ==
    \A s \in 1..Len(states) :
        LET out == heap[states[s].parsed]
            node == At(doc, Tail(states[s].parsed))
        IN \A ja, jb \in 1..Len(node.keys) :
              ( /\ node.kids[ja] = RefV(Join(states[s].path, node.keys[jb]))
                /\ node.kids[jb].t = "map"
                /\ DictHas(out, SKey(node.keys[ja]))
                /\ DictHas(out, SKey(node.keys[jb]))
                /\ DictGet(out, SKey(node.keys[jb])).t = "ent" )
              => DictGet(out, SKey(node.keys[ja])) = DictGet(out, SKey(node.keys[jb]))

\* a Mapping a: $b, b: <entity>, c: $b, fully parsed: a was patched when b
\* was registered, c when resolve_once_ready found b
C2_BothOrdersResolved ==
    \E s \in 1..Len(states) :
        LET out == heap[states[s].parsed]
            node == At(doc, Tail(states[s].parsed))
            b == Join(states[s].path, "b")
        IN /\ node.keys = <<"a", "b", "c">>
           /\ node.kids[1] = RefV(b) /\ node.kids[3] = RefV(b)
           /\ out.keys = <<SKey("a"), SKey("b"), SKey("c")>>
           /\ out.vals[2].t = "ent"
           /\ out.vals[1] = out.vals[2] /\ out.vals[3] = out.vals[2]
           /\ \E i, j \in 1..Len(fired) :
                /\ fired[i].cb.coll = states[s].parsed /\ fired[i].cb.key = SKey("a")
                /\ ~fired[i].sync
                /\ fired[j].cb.coll = states[s].parsed /\ fired[j].cb.key = SKey("c")
                /\ fired[j].sync

\* C3: whenever parse ends with a reference name still pending (and no
\* constructor raised), it ends in a ConfigError naming every pending path,
\* and no Config Tree is published; for every document.
C3_PendingNamesRaiseConfigError ==
    (Done /\ later # <<>> /\ result.status # "ConstructorError") =>
        /\ result.status = "ConfigError"
        /\ result.names = GetUnresolved(later)
        /\ runner_tree = NoneV

C4Doc ==
    Map(<<"a", "c">>, <<Map(<<"x">>, <<RefV(<<"c", "y">>)>>), Map(<<"y">>, <<IntV(42)>>)>>)

C5_LastRegisteredFirst ==
    \A j \in 1..Len(calls) :
        /\ \A i \in 1..(j - 1) :
              calls[i].node = calls[j].node =>
                 calls[i].fac > calls[j].fac /\ calls[i].res = "skip"
        /\ \A f \in (calls[j].fac + 1)..Len(filters) :
              Match(filters[f].flt, calls[j].cfg, calls[j].path) =>
                 \E i \in 1..(j - 1) :
                    /\ calls[i].node = calls[j].node
                    /\ calls[i].fac = f
                    /\ calls[i].res = "skip"

\* a factory added after the built-in ones declined a node, and the
\* built-in one then constructed it
C5_SkipThenEarlier ==
    \E i, j \in 1..Len(calls) :
        /\ i < j
        /\ calls[i].node = calls[j].node
        /\ calls[i].res = "skip" /\ calls[i].fac > Len(BuiltinFilters)
        /\ calls[j].res = "entity" /\ calls[j].fac <= Len(BuiltinFilters)

\* _get_node fell through for the call logged as m: no constructor returned
FellThrough(m) ==
    \A j \in 1..Len(calls) : calls[j].node = m.node => calls[j].res = "skip"

\* C6: when no factory predicate matches a Mapping, or every matching
\* factory's constructor signals skip, _get_node returns the resolved
\* Mapping itself with its content as it was, leaves collections as they
\* were, and the Mapping is never registered in the Reference Registry.
C6_UnmatchedPassesThrough ==
    \A k \in 1..Len(matched) :
        FellThrough(matched[k]) =>
            /\ matched[k].ret = ObjV(matched[k].node)
            /\ matched[k].obj = matched[k].snap
            /\ matched[k].cols = matched[k].cols0
            /\ \A j \in 1..Len(regs) : regs[j].val # ObjV(matched[k].node)
            /\ \A n \in DOMAIN idx : idx[n] # ObjV(matched[k].node)

\* parse ended after one Mapping no predicate matched and one whose only
\* matching factory declined were passed through
C6_PassedThrough ==
    /\ Done
    /\ \E k \in 1..Len(matched) :
         /\ FellThrough(matched[k])
         /\ \A j \in 1..Len(calls) : calls[j].node # matched[k].node
         /\ matched[k].snap.keys # <<>>
    /\ \E k \in 1..Len(matched) :
         /\ FellThrough(matched[k])
         /\ \E j \in 1..Len(calls) : calls[j].node = matched[k].node

\* the factory that constructed entity e has a classifier
Classified(e) == HasColl(filters[entities[e].fac].coll)

BucketOf(e) == Bucket(filters[entities[e].fac].coll, entities[e].kind)

TailOf(e) == PathTail(entities[e].path)

\* the entities classified into bucket b under key k
Sharing(b, k) ==
    { e \in 1..Len(entities) :
        Classified(e) /\ BucketOf(e) = b /\ TailOf(e) = k }

Max(S) == CHOOSE x \in S : \A y \in S : y <= x

\* the Mapping entity e was built from is reached through Mappings only
ViaMappings(e) ==
    \A n \in 0..(Len(entities[e].node) - 2) :
        At(doc, SubSeq(Tail(entities[e].node), 1, n)).t = "map"

\* C7: after a successful parse, for every entity a factory with a
\* classifier constructed at path P of nested Mappings (and no other entity
\* of its bucket shares P's last segment), the value at path P in the Config
\* Tree and the collection entry under P's last segment are that entity,
\* whichever pass constructed it.
C7_TreeAndCollectionAgree ==
    (Done /\ result.status = "ok" /\ nmut = 0) =>
        \A e \in 1..Len(entities) :
            (Classified(e) /\ ViaMappings(e)
                /\ Sharing(BucketOf(e), TailOf(e)) = {e}) =>
                /\ TreeAt(entities[e].path).ok
                /\ TreeAt(entities[e].path).v = EntV(e)
                /\ collections[BucketOf(e)][TailOf(e)] = EntV(e)

\* C8: collections hold exactly one entry for each bucket and last path
\* segment under which a classified entity was constructed, and the entry is
\* the latest such entity: an entry is overwritten only by a later entity
\* of the same bucket with the same last segment.
C8_KeyedByBucketAndTail ==
    /\ \A e \in 1..Len(entities) :
          Classified(e) =>
             /\ BucketOf(e) \in DOMAIN collections
             /\ TailOf(e) \in DOMAIN collections[BucketOf(e)]
             /\ collections[BucketOf(e)][TailOf(e)]
                  = EntV(Max(Sharing(BucketOf(e), TailOf(e))))
    /\ \A b \in DOMAIN collections : \A k \in DOMAIN collections[b] :
          Sharing(b, k) # {}

\* two entities of one kind under a.x and b.z are both in their bucket
C8_DistinctEntries ==
    \E e1, e2 \in 1..Len(entities) :
        /\ e1 < e2
        /\ Classified(e1) /\ Classified(e2)
        /\ entities[e1].kind = entities[e2].kind
        /\ Len(entities[e1].path) = 2 /\ Len(entities[e2].path) = 2
        /\ BucketOf(e1) = BucketOf(e2)
        /\ TailOf(e1) # TailOf(e2)
        /\ collections[BucketOf(e1)][TailOf(e1)] = EntV(e1)
        /\ collections[BucketOf(e2)][TailOf(e2)] = EntV(e2)

\* C9: once parse has returned a Config Tree, the tree stays what parse
\* returned: no assignment to or deletion of a key changes it.
C9_TreeImmutable ==
    (Done /\ result.status = "ok") =>
        heap[TreeId] = [heap[parsed.o] EXCEPT !.kind = "attr"]

\* the callbacks register(r.name, r.val) invokes
Invoked(r) ==
    [j \in 1..Len(LaterCbs(later, r.name)) |->
        [cb |-> LaterCbs(later, r.name)[j], val |-> r.val, sync |-> FALSE]]

\* C10: a step that calls register(name, value) records value under name,
\* invokes the callbacks pending for name, each once, in the order they were
\* enqueued and with value, leaves none pending for name, and leaves the
\* callbacks pending for other names as they were.
C10_RegisterFiresPending ==
    [][Len(regs') > Len(regs) =>
        LET r == regs'[Len(regs')] IN
        /\ regs' = Append(regs, r)
        /\ r.name \in DOMAIN idx' /\ idx'[r.name] = r.val
        /\ fired' = fired \o Invoked(r)
        /\ \A i \in 1..Len(fired) : \A j \in 1..Len(Invoked(r)) :
              fired[i].cb.id # Invoked(r)[j].cb.id
        /\ ~LaterHas(later', r.name)
        /\ \A j \in 1..Len(later) :
              later[j].name # r.name =>
                 LaterCbs(later', later[j].name) = later[j].cbs]_vars

\* register just invoked two callbacks pending for one name, in the order
\* they were created, while another name stays pending
C10_TwoPendingFired ==
    /\ later # <<>>
    /\ regs # <<>>
    /\ Len(fired) >= 2
    /\ LET f == fired[Len(fired) - 1]
           g == fired[Len(fired)]
       IN /\ ~f.sync /\ ~g.sync
          /\ f.cb.name = regs[Len(regs)].name /\ g.cb.name = f.cb.name
          /\ f.val = regs[Len(regs)].val /\ g.val = f.val
          /\ f.cb.id < g.cb.id

\* the callbacks pending in l, and the ids of those invoked in f
Pending(l) == UNION { { l[j].cbs[i] : i \in 1..Len(l[j].cbs) } : j \in 1..Len(l) }

FiredIds(f) == { f[j].cb.id : j \in 1..Len(f) }

\* C11: a step that calls resolve_once_ready(name, callback) leaves the
\* registry's values alone and, if name is registered, invokes the callback
\* in that step with the stored value (the result is True) and enqueues
\* nothing; otherwise it does not invoke it (the result is False) and
\* appends it to the pending list of name, behind those already there.
C11_ResolveOnceReady ==
    [][ncb' > ncb =>
        /\ idx' = idx
        /\ \A k \in (ncb + 1)..ncb' :
              \E cb \in Pending(later') \cup { fired'[j].cb : j \in 1..Len(fired') } :
                 /\ cb.id = k
                 /\ IF ResolveOnceReadyResult(Store, cb.name)
                    THEN /\ cb.name \in DOMAIN idx
                         /\ \E j \in (Len(fired) + 1)..Len(fired') :
                               fired'[j] = [cb |-> cb, val |-> idx[cb.name], sync |-> TRUE]
                         /\ cb \notin Pending(later')
                         /\ later' = later
                    ELSE /\ cb.name \notin DOMAIN idx
                         /\ k \notin FiredIds(fired')
                         /\ LET old == LaterCbs(later, cb.name)
                                new == LaterCbs(later', cb.name)
                            IN /\ IsPrefix(old, new)
                               /\ \E i \in (Len(old) + 1)..Len(new) : new[i] = cb
                               /\ \A i \in (Len(old) + 1)..Len(new) :
                                     /\ new[i].id \in (ncb + 1)..ncb'
                                     /\ i > Len(old) + 1 => new[i - 1].id < new[i].id]_vars

\* one callback was invoked by resolve_once_ready with the stored value
\* and another, for a name not registered, is pending
C11_ResolvedAndPending ==
    /\ \E j \in 1..Len(fired) :
          /\ fired[j].sync
          /\ fired[j].cb.name \in DOMAIN idx
          /\ fired[j].val = idx[fired[j].cb.name]
    /\ \E cb \in Pending(later) : cb.name \notin DOMAIN idx /\ cb.id \notin FiredIds(fired)

\* C12: get_unresolved() returns exactly the names that have a pending
\* callback: each returned name has a non-empty pending list, is returned
\* once and is not registered, and every callback created and not yet
\* invoked is pending under a returned name.
C12_UnresolvedNames ==
    /\ \A j \in 1..Len(GetUnresolved(later)) :
          LET name == GetUnresolved(later)[j] IN
          /\ LaterCbs(later, name) # <<>>
          /\ name \notin DOMAIN idx
          /\ \A i \in 1..Len(GetUnresolved(later)) :
                GetUnresolved(later)[i] = name => i = j
    /\ \A k \in 1..ncb :
          k \notin FiredIds(fired) =>
             \E cb \in Pending(later) :
                /\ cb.id = k
                /\ \E j \in 1..Len(GetUnresolved(later)) : GetUnresolved(later)[j] = cb.name
    /\ \A cb \in Pending(later) : cb.id \notin FiredIds(fired)

\* after a registration that invoked pending callbacks, a name whose
\* callback was enqueued later is pending
C12_SomePendingSomeFired ==
    /\ GetUnresolved(later) # <<>>
    /\ \A cb \in Pending(later) : cb.id > Len(fired)
    /\ regs # <<>>
    /\ \E j \in 1..Len(fired) : ~fired[j].sync

\* C13: a constructor that raises (other than SkipNode) ends parse at once
\* with its exception: it is the last constructor invoked, in the
\* depth-first pass and in the fixpoint loop alike, nothing is returned by
\* _get_node after it, and no Config Tree is published by the run.
C13_ConstructorErrorAborts ==
    /\ \A j \in 1..Len(calls) :
          calls[j].res = "raise" =>
             /\ j = Len(calls)
             /\ Done /\ stack = <<>>
             /\ result = [status |-> "ConstructorError", names |-> <<>>]
             /\ \A k \in 1..Len(matched) : matched[k].node # calls[j].node
    /\ result.status = "ConstructorError" =>
          /\ calls # <<>> /\ calls[Len(calls)].res = "raise"
          /\ ninit = 1 => runner_tree = NoneV

\* a constructor raised in the fixpoint loop, after constructors of the
\* depth-first pass had returned
C13_RaisedInLoop ==
    /\ Done
    /\ result.status = "ConstructorError"
    /\ calls[Len(calls)].res = "raise" /\ calls[Len(calls)].ctx = "loop"
    /\ \E j \in 1..Len(calls) : calls[j].ctx = "dfs" /\ calls[j].res = "entity"
    /\ unresolved_states # <<>>

\* the sigil alone: a Reference with the empty path
EmptyRef == RefV(<<>>)

\* C14: a scalar made of the reference sigil and an invalid (empty) path
\* is never enqueued as a pending reference nor handed to a callback, is
\* not kept in a resolved Mapping or Sequence, and no sibling after it is
\* processed: parse has failed by then.
C14_InvalidReferenceFailsFast ==
    /\ \A cb \in Pending(later) : cb.name # <<>>
    /\ \A j \in 1..Len(fired) : fired[j].cb.name # <<>>
    /\ \A id \in DOMAIN heap :
          id[1] = 1 => \A j \in 1..Len(heap[id].vals) : heap[id].vals[j] # EmptyRef
    /\ \A s \in 1..Len(states) :
          LET node == At(doc, Tail(states[s].parsed)) IN
          \A i, j \in 1..Len(node.kids) :
             (i < j /\ node.kids[i] = EmptyRef) =>
                ~DictHas(heap[states[s].parsed], SKey(node.keys[j]))

\* the fields of a resolved Mapping other than the constructor key
Remaining(ob) ==
    [k \in {ob.keys[j] : j \in 1..Len(ob.keys)} \ {SKey(IMPORT_KEY)} |-> DictGet(ob, k)]

\* C16: every entity the generic entity factory has constructed (and so
\* every one in a collection, in the Reference Registry or substituted for
\* a reference) was constructed with the Mapping's remaining fields as
\* keyword arguments and, if its class exposes an async init, had that
\* init awaited.
C16_ConstructedAndInitialised ==
    \A e \in 1..Len(entities) :
        filters[entities[e].fac].fn = "entity_factory" =>
            /\ \E j \in 1..Len(calls) :
                  /\ calls[j].node = entities[e].node /\ calls[j].res = "entity"
                  /\ entities[e].kwargs = Remaining(calls[j].cfg)
            /\ ExposesInit(entities[e].kind) => entities[e].inited

\* C18: within one parse no name is registered in the Reference Registry
\* twice with two different entities.
C18_NamesRegisteredOnce ==
    \A i, j \in 1..Len(regs) :
        regs[i].name = regs[j].name => regs[i].val = regs[j].val

\* value v of heap h has the shape of document node `node`: a dict has
\* exactly the keys of the Mapping and a list the length of the Sequence, and
\* so have the values they hold; a Mapping an entity replaced is exempt
RECURSIVE SameShape(_, _, _)
SameShape(node, v, h) ==
    CASE node.t = "map" ->
           IF v.t = "obj" /\ IsDictObj(h[v.o])
           THEN /\ {h[v.o].keys[j] : j \in 1..Len(h[v.o].keys)}
                      = {SKey(node.keys[j]) : j \in 1..Len(node.keys)}
                /\ \A j \in 1..Len(node.kids) :
                      SameShape(node.kids[j], DictGet(h[v.o], SKey(node.keys[j])), h)
           ELSE v.t = "ent"
      [] node.t = "list" ->
           /\ v.t = "obj" /\ h[v.o].kind = "list"
           /\ Len(h[v.o].vals) = Len(node.kids)
           /\ \A j \in 1..Len(node.kids) : SameShape(node.kids[j], h[v.o].vals[j], h)
      [] OTHER -> TRUE

\* C19: after a successful parse with the stock factories, the Config Tree
\* has the shape of the input document: every Mapping not replaced by an
\* entity has exactly the input's keys and every Sequence the input's length.
C19_TreeHasInputShape ==
    (Done /\ result.status = "ok" /\ nmut = 0 /\ StockFactories) =>
        SameShape(doc, ObjV(TreeId), heap)

\* _parse_cfg for a child Mapping, the value of a key or an element of a
\* Sequence, has returned to _parse_item
ChildReturned ==
    /\ pc = "ret" /\ stack # <<>> /\ Top.fn \in {"cfg", "lst"}
    /\ IsDictV(CurVal, heap)

\* P.key: the path of the child Mapping that has returned
ChildPath ==
    Join(Top.path, StrOf(IF Top.fn = "cfg" THEN CurKey ELSE IKey(Top.i - 1)))

\* C20: in the depth-first pass, the step that takes the result of a child
\* Mapping at path P.key registers it, under P.key, if and only if the
\* result is an entity a factory constructed at P.key; no step registers a
\* plain Mapping, a scalar or a deferred subtree.
C20_RegisteredIffEntity ==
    [][IF ChildReturned /\ ret.t = "ent"
       THEN /\ regs' = Append(regs, [name |-> ChildPath, val |-> ret])
            /\ matched[Len(matched)].ret = ret
            /\ matched[Len(matched)].path = ChildPath
            /\ matched[Len(matched)].ctx = "dfs"
       ELSE regs' = regs \/ regs' = <<>>]_vars

\* the depth-first pass has registered an entity and has neither registered
\* the plain Mapping it resolved nor the subtree it deferred
C20_EntityOnlyRegistered ==
    /\ stack # <<>> /\ stack[1].ctx = "dfs"
    /\ regs # <<>>
    /\ \E k \in 1..Len(matched) :
          /\ matched[k].ret.t = "obj" /\ matched[k].path # <<>>
          /\ \A j \in 1..Len(regs) : regs[j].name # matched[k].path
    /\ unresolved_states # <<>>
    /\ \A u \in 1..Len(unresolved_states) :
          /\ states[unresolved_states[u]].path # <<>>
          /\ \A j \in 1..Len(regs) :
                regs[j].name # states[unresolved_states[u]].path

\* the run before this one
Before == prev[Len(prev)]

\* C15: when a document without References is parsed again with the keys of
\* its Mappings in another order, and both parses succeed (with the trees
\* left as parse returned them), the second Config Tree and collections
\* equal the first.
C15_KeyOrderIndependent ==
    (/\ Done /\ prev # <<>>
     /\ DocRefs(doc) = {}
     /\ nmut = 0
     /\ result.status = "ok") =>
        (Before.status = "ok" =>
            /\ Flat(ObjV(TreeId), <<>>) = Before.tree
            /\ FlatCollections = Before.cols)

\* C17: a parse of a Runner initialised again after finalize consults the
\* factories the run before consulted, and its resolver holds no name but
\* those registered in this parse.
C17_NoStateSharedBetweenRuns ==
    (prev # <<>> /\ pc # "setup") =>
        /\ filters = Before.filters
        /\ \A n \in DOMAIN idx : \E j \in 1..Len(regs) : regs[j].name = n

\* the Sequences of the document that hold a Reference: position and index
SequenceRefs(d) ==
    { r \in DocRefs(d) : At(d, Front(r.pos)).t = "list" }

\* C21: a Reference found in the document raises a counter once (one
\* callback is created for it), and after a successful parse the element
\* of the resolved Sequence at the index of a Reference is the referenced
\* value, not the Reference.
C21_SequenceReferenceSubstituted ==
    /\ ncb <= Cardinality(DocRefs(doc))
    /\ (Done /\ result.status = "ok" /\ nmut = 0) =>
          \A r \in SequenceRefs(doc) :
              LET out == heap[OutId(Front(r.pos))] IN
              /\ out.kind = "list"
              /\ Len(out.vals) >= Last(r.pos)
              /\ ~IsReference(out.vals[Last(r.pos)])

\* C22: after a successful parse, every entity the repair pass constructed
\* for a deferred state stands in the Config Tree at the state's path and
\* was registered in the Reference Registry under that path.
C22_RepairPassRegisters ==
    (Done /\ result.status = "ok" /\ nmut = 0) =>
        \A k \in 1..Len(matched) :
            (matched[k].ctx = "loop" /\ matched[k].ret.t = "ent") =>
                /\ TreeAt(matched[k].path).ok
                /\ TreeAt(matched[k].path).v = matched[k].ret
                /\ \E j \in 1..Len(regs) :
                      regs[j] = [name |-> matched[k].path, val |-> matched[k].ret]

\* C23: a callback is invoked at most once; when it has been invoked, the
\* name it waits for has been registered, with the value it was given; and
\* a name is registered only with what a constructor returned for the
\* Mapping at that path, called when the Mapping's counter was zero.
C23_FiredOnceAfterRegistration ==
    /\ \A i, j \in 1..Len(fired) : fired[i].cb.id = fired[j].cb.id => i = j
    /\ \A i \in 1..Len(fired) :
          \E j \in 1..Len(regs) :
              regs[j].name = fired[i].cb.name /\ regs[j].val = fired[i].val
    /\ \A j \in 1..Len(regs) :
          \E k \in 1..Len(matched) :
              /\ matched[k].path = regs[j].name /\ matched[k].ret = regs[j].val
              /\ matched[k].unresolved = 0
              /\ \E c \in 1..Len(calls) :
                    calls[c].node = matched[k].node /\ calls[c].res = "entity"

\* a name was registered a second time after register invoked a callback
\* pending for it, and a registered name resolved another callback at once
C23_ReRegistered ==
    /\ \E i \in 1..Len(fired) : \E j, k \in 1..Len(regs) :
          /\ ~fired[i].sync
          /\ j < k
          /\ regs[j].name = fired[i].cb.name /\ regs[k].name = fired[i].cb.name
          /\ regs[j].val # regs[k].val
          /\ fired[i].val = regs[j].val
    /\ \E i \in 1..Len(fired) : fired[i].sync

\* position p comes before position q when the document is walked depth
\* first, children before the Mapping that holds them
Precedes(p, q) ==
    \/ p # q /\ IsPrefix(q, p)
    \/ \E n \in 1..Len(p) :
          /\ n <= Len(q)
          /\ SubSeq(p, 1, n - 1) = SubSeq(q, 1, n - 1)
          /\ p[n] < q[n]

\* _parse_cfg has returned for the Mapping at position q: _get_node
\* returned for it, or its state was deferred
Completed(q) ==
    \/ \E k \in 1..Len(matched) : matched[k].node = OutId(q)
    \/ \E u \in 1..Len(unresolved_states) :
          states[unresolved_states[u]].parsed = OutId(q)

\* C24: at most one _get_node call is in progress; the constructors of the
\* depth-first pass are invoked in document order, those of nested Mappings
\* before that of the Mapping holding them, each when _parse_cfg has
\* returned for every Mapping before it; and every constructor of the
\* repair pass is invoked after all of those of the depth-first pass.
C24_OneConstructorAtATime ==
    /\ Cardinality({n \in 1..Len(stack) : stack[n].fn = "node"}) <= 1
    /\ \A i, j \in 1..Len(calls) :
          i < j =>
             /\ calls[i].ctx = "loop" => calls[j].ctx = "loop"
             /\ (calls[i].ctx = "dfs" /\ calls[j].ctx = "dfs") =>
                   \/ calls[i].node = calls[j].node
                   \/ Precedes(Tail(calls[i].node), Tail(calls[j].node))
    /\ \A c \in 1..Len(calls) :
          calls[c].ctx = "dfs" =>
             \A q \in {x.pos : x \in DocCalls(doc, <<>>, <<>>)} :
                 Precedes(q, Tail(calls[c].node)) => Completed(q)

\* a constructor was invoked for a nested Mapping, then for the Mapping
\* holding it, and later one in the repair pass
C24_NestedThenRepair ==
    \E i, j, k \in 1..Len(calls) :
        /\ i < j /\ j < k
        /\ calls[i].ctx = "dfs" /\ calls[j].ctx = "dfs" /\ calls[k].ctx = "loop"
        /\ calls[i].node # calls[j].node
        /\ IsPrefix(Tail(calls[j].node), Tail(calls[i].node))

\* C25: a parse that has started returns a tree or raises.
C25_ParseTerminates == (pc = "run") ~> Done

\* parse ended with names pending after a scan that resolved one deferred
\* state and left another deferred
C25_StoppedWithPending ==
    /\ Done /\ result.status = "ConfigError"
    /\ unresolved_states # <<>>
    /\ \E k \in 1..Len(matched) : matched[k].ctx = "loop"

\* C26: when parse has ended, for every constructor call that returned
\* None: no entity stands for the Mapping, nothing was registered for its
\* path by that call, parse did not fail if the Mapping is the root, and
\* after a successful parse the tree holds, at the path of a Mapping nested
\* in Mappings, the resolved form the constructor was given.
C26_NoneKeepsResolvedMapping ==
    (Done /\ nmut = 0) =>
        \A c \in 1..Len(calls) :
            calls[c].res = "none" =>
                /\ \A e \in 1..Len(entities) : entities[e].node # calls[c].node
                /\ calls[c].path = <<>> => result.status = "ok"
                /\ (/\ result.status = "ok"
                    /\ calls[c].path # <<>>
                    /\ \A n \in 0..(Len(calls[c].node) - 2) :
                          At(doc, SubSeq(Tail(calls[c].node), 1, n)).t = "map") =>
                       /\ TreeAt(calls[c].path).ok
                       /\ TreeAt(calls[c].path).v = ObjV(calls[c].node)

\* C27: with the stock factories, no constructor has been invoked for a
\* Mapping that holds, at any depth, a Mapping whose state is deferred.
C27_NoConstructionOverDeferred ==
    StockFactories =>
        \A c \in 1..Len(calls) : \A u \in 1..Len(unresolved_states) :
            LET p == Tail(calls[c].node)
                q == Tail(states[unresolved_states[u]].parsed)
            IN ~(p # q /\ IsPrefix(p, q))

\* C28: the counter of every state is the number of callbacks created for
\* it that have not been invoked (so it is not negative), every callback
\* created is pending or was invoked, _get_node is entered for a state only
\* with its counter at zero, and at most once for each state.
C28_CounterCountsPending ==
    /\ \A s \in 1..Len(states) :
          /\ states[s].unresolved >= 0
          /\ states[s].unresolved = Cardinality({cb \in Pending(later) : cb.st = s})
    /\ ncb = Cardinality(FiredIds(fired)) + Cardinality(Pending(later))
    /\ \A k \in 1..Len(matched) : matched[k].unresolved = 0
    /\ \A k, l \in 1..Len(matched) : matched[k].st = matched[l].st => k = l
    /\ (stack # <<>> /\ Top.fn = "node") =>
          /\ states[Top.st].unresolved = 0
          /\ \A k \in 1..Len(matched) : matched[k].st # Top.st

\* a state with callbacks pending, and a state whose callbacks were all
\* invoked and which the repair pass then passed to factory matching
C28_PendingAndRepaired ==
    /\ \E s \in 1..Len(states) : states[s].unresolved >= 1
    /\ \E k \in 1..Len(matched) :
          /\ matched[k].ctx = "loop"
          /\ \E i \in 1..Len(fired) : fired[i].cb.st = matched[k].st

\* C29: from the call of parse on, every Mapping and Sequence of the input
\* document holds the keys and values it held when parse was called.
C29_InputUnchanged ==
    pc # "setup" =>
        \A q \in Positions(doc) : heap[InId(q)] = ObjOf(At(doc, q), q)

\* C30: the Runner is initialized when its last init has succeeded and it
\* was not finalized since: it is not before the first init nor after a
\* finalize, it is after an init whose parse returned, and it is not after
\* an init whose parse raised.
C30_InitializedIffInitSucceeded ==
    /\ pc = "setup" => ~IsInitialized
    /\ (Done /\ result.status = "ok") => IsInitialized
    /\ (Done /\ result.status # "ok") => ~IsInitialized

====
